---- MODULE Spec2Model ----
(***************************************************************************)
(* Model of extractConnectedMaskRects (utils/eraseMask): the flood fill    *)
(* that turns an erase mask into the bounding rectangles of its            *)
(* 4-connected components.  Arrays are JavaScript arrays, 0-based; they    *)
(* are modelled by sequences read through At(a, i) = a[i + 1].             *)
(***************************************************************************)
EXTENDS Integers, Sequences, FiniteSets, TLC

\* ------------------------------------------------------------- bounds
MaxWidth == 4
MaxHeight == 3
MaxCells == 12
MaxMinPixels == 3
RepeatCells == 2
BytesCells == 4
MaxSlides == 3
ErasePixels == 6
MaxEntries == 2
MaxDeck == 2
MaxCalls == 2
MaxStrokes == 2

VARIABLES
    pc,          \* position in extractConnectedMaskRects
    mask, width, height, minPixels,                \* the arguments
    visited, rects, queue,                         \* lines 11-13
    idx,                                           \* the scan index, line 23
    count, minX, minY, maxX, maxY,                 \* lines 30-34
    result,      \* the returned array
    \* history variables (not program state)
    seed,        \* index at which the component being filled was found
    cur,         \* pixels counted for the component being filled
    found,       \* one record per completed component, in discovery order
    popCount,    \* per pixel: how often it was popped (counted)
    pushCount,   \* per pixel: how often it was pushed
    saved,       \* an earlier call remembered: its arguments and result
    between,     \* another call completed since the remembered one
    twin,        \* a mask with other bytes at the non-zero positions of mask
    \* duplicateSlideAtIndex (utils/slideOperations.ts)
    heap,        \* the objects: ref |-> slide, overlay or rect
    slides,      \* the argument array: refs of slide objects
    sourceIndex, \* the argument index
    returned,    \* the returned {slides, insertedIndex}
    \* the brush size and the threshold derived from it (App.tsx)
    eraseBrushSize,  \* useState(28), set by the range input
    passed,      \* the brush size read and the minPixels passed at line 461
    \* shrinkForRequestIfNeeded (services/geminiService.ts, client side)
    spc,         \* position in shrinkForRequestIfNeeded
    dataUrl,     \* the argument: the lengths of the parts between its commas
    currentUrl, scale, quality,  \* current, scale, quality of lines 48-50, in hundredths
    loopI,       \* the loop counter i, line 52
    attempts,    \* calls of compressDataUrl so far (history)
    results,     \* the data URLs compressDataUrl returned, in order (history)
    shrunk,      \* the value returned
    \* handleApplyEraseMode (App.tsx)
    epc,         \* position in handleApplyEraseMode
    isProcessing,
    appHistory,  \* history: one list of slide images per entry
    historyIndex,
    targetRects, workingDataUrl,   \* lines 461 and 468
    rectIdx,     \* position of the for-of loop in targetRects, line 469
    cropped,     \* line 470
    requests,    \* the rectangle and crop of each removeTextFromImage call (history)
    replies,     \* how each call ended: "patch", "null" or "throw" (history)
    alerts,      \* the alerts shown (history)
    \* the rest of the App state (App.tsx, lines 39-55)
    activeSlideIdx,
    isEraseMode,
    erasePaths, eraseRedoPaths,
    strokeCount, \* strokes committed so far: the next stroke is a new one (history)
    calls,       \* the asynchronous handler calls awaiting, each with the state
                 \* its closure captured when it was called
    lastUpdate,  \* what the latest updateHistory read and was given (history)
    \* removeAllTextFromSlide (services/geminiService.ts, client side)
    rpc,         \* position in removeAllTextFromSlide
    base64Image, \* the argument
    sent,        \* the images sent to the backend, in order (history)
    responses,   \* what the backend answered, in order (history)
    thrown       \* the message of the error the call rejected with

args == <<mask, width, height, minPixels>>
locals == <<visited, rects, queue, idx, count, minX, minY, maxX, maxY>>
history == <<seed, cur, found, popCount, pushCount>>
memory == <<saved, between>>
slideVars == <<heap, slides, sourceIndex, returned>>
brushVars == <<eraseBrushSize, passed>>
shrinkVars == <<spc, dataUrl, currentUrl, scale, quality, loopI, attempts, results, shrunk>>
eraseVars == <<epc, isProcessing, appHistory, historyIndex, targetRects,
               workingDataUrl, rectIdx, cropped, requests, replies, alerts>>
uiVars == <<activeSlideIdx, isEraseMode, erasePaths, eraseRedoPaths, strokeCount,
            calls, lastUpdate>>
removeVars == <<rpc, base64Image, sent, responses, thrown>>
beyond == <<uiVars, removeVars>>
app == <<slideVars, brushVars, shrinkVars, eraseVars, beyond>>
extractor == <<pc, args, locals, result, history, memory, twin>>
others == <<twin, app>>
vars == <<pc, args, locals, result, history, memory, others>>

\* ------------------------------------------------------------- data
PixelValues == {0, 255}
NoCall == [none |-> TRUE]
NoRect == [none |-> TRUE]
NoReturn == [none |-> TRUE]
NoPass == [none |-> TRUE]
InitialBrushSize == 28
SliderMin == 12
SliderMax == 72
MinPixelsFloor == 120
NoUrl == <<>>
MAX_REQUEST_IMAGE_BYTES == 3000000
ShrinkAttempts == 6

At(a, i) == a[i + 1]
SetAt(a, i, v) == [a EXCEPT ![i + 1] = v]
Zeros(n) == [i \in 1..n |-> 0]

MasksOfLength(n) == [1..n -> PixelValues]

\* Well formed arguments and, for every raster, the masks one element too
\* short and one element too long.
Inputs ==
    { in \in [mask : UNION {MasksOfLength(n) : n \in 0..(MaxCells + 1)},
              width : 1..MaxWidth, height : 1..MaxHeight,
              minPixels : 0..MaxMinPixels] :
        /\ in.width * in.height <= MaxCells
        /\ Len(in.mask) - in.width * in.height \in {-1, 0, 1} }

\* The arguments of the repeated calls: well formed rasters of at most
\* RepeatCells pixels, with the thresholds that keep and that drop a single pixel.
SmallInputs ==
    { in \in [mask : UNION {MasksOfLength(n) : n \in 0..RepeatCells},
              width : 1..RepeatCells, height : 1..RepeatCells,
              minPixels : {1, 2}] :
        Len(in.mask) = in.width * in.height }

\* ------------------------------------------------------------- helpers
\* mutants of MakeRect: the width and height without the + 1; the width and
\* height measured from the origin instead of from the top-left corner
MakeRectOffByOne(x0, y0, x1, y1) ==
    [x |-> x0, y |-> y0, width |-> x1 - x0, height |-> y1 - y0]

MakeRectFromOrigin(x0, y0, x1, y1) ==
    [x |-> x0, y |-> y0, width |-> x1 + 1, height |-> y1 + 1]

MakeRect(x0, y0, x1, y1) ==
    [x |-> x0, y |-> y0, width |-> x1 - x0 + 1, height |-> y1 - y0 + 1]

\* mutant of PushIfValid: the range check made on the flat index instead of
\* on the column, so that x - 1 and x + 1 wrap to the neighbouring row
PushIfValidFlatIndex(st, x, y) ==
    LET i == y * width + x IN
    IF y < 0 \/ y >= height \/ i < 0 \/ i >= Len(mask) THEN st
    ELSE IF At(st.visited, i) # 0 \/ At(mask, i) = 0 THEN st
         ELSE [visited |-> SetAt(st.visited, i, 1),
               queue |-> Append(st.queue, i),
               pushCount |-> SetAt(st.pushCount, i, At(st.pushCount, i) + 1)]

\* mutants of PushIfValid: the pixel is queued without being marked visited;
\* only a pixel of at least half the full value counts as foreground
PushIfValidNoMark(st, x, y) ==
    IF x < 0 \/ y < 0 \/ x >= width \/ y >= height THEN st
    ELSE LET i == y * width + x IN
         IF At(st.visited, i) # 0 \/ At(mask, i) = 0 THEN st
         ELSE [visited |-> st.visited,
               queue |-> Append(st.queue, i),
               pushCount |-> SetAt(st.pushCount, i, At(st.pushCount, i) + 1)]

PushIfValidThreshold(st, x, y) ==
    IF x < 0 \/ y < 0 \/ x >= width \/ y >= height THEN st
    ELSE LET i == y * width + x IN
         IF At(st.visited, i) # 0 \/ At(mask, i) < 128 THEN st
         ELSE [visited |-> SetAt(st.visited, i, 1),
               queue |-> Append(st.queue, i),
               pushCount |-> SetAt(st.pushCount, i, At(st.pushCount, i) + 1)]

\* pushIfValid, on the pair of arrays it writes
PushIfValid(st, x, y) ==
    IF x < 0 \/ y < 0 \/ x >= width \/ y >= height THEN st
    ELSE LET i == y * width + x IN
         IF At(st.visited, i) # 0 \/ At(mask, i) = 0 THEN st
         ELSE [visited |-> SetAt(st.visited, i, 1),
               queue |-> Append(st.queue, i),
               pushCount |-> SetAt(st.pushCount, i, At(st.pushCount, i) + 1)]

\* mutant of Compare: the columns compared before the rows
CompareXFirst(a, b) == IF a.x - b.x # 0 THEN a.x - b.x ELSE a.y - b.y

\* (a.y - b.y) || (a.x - b.x)
Compare(a, b) == IF a.y - b.y # 0 THEN a.y - b.y ELSE a.x - b.x

\* mutant of Insert: an element goes before the elements equal to it
RECURSIVE InsertBeforeEqual(_, _)
InsertBeforeEqual(s, r) ==
    IF s = <<>> THEN <<r>>
    ELSE IF Compare(s[Len(s)], r) < 0 THEN Append(s, r)
    ELSE Append(InsertBeforeEqual(SubSeq(s, 1, Len(s) - 1), r), s[Len(s)])

\* Array.prototype.sort is stable: equal elements keep their order.
RECURSIVE Insert(_, _)
Insert(s, r) ==
    IF s = <<>> THEN <<r>>
    ELSE IF Compare(s[Len(s)], r) <= 0 THEN Append(s, r)
    ELSE Append(Insert(SubSeq(s, 1, Len(s) - 1), r), s[Len(s)])

RECURSIVE SortRects(_)
SortRects(s) ==
    IF s = <<>> THEN <<>>
    ELSE Insert(SortRects(SubSeq(s, 1, Len(s) - 1)), s[Len(s)])

\* ------------------------------------------------------------- actions
StartWith(in) ==
    /\ mask = in.mask
    /\ width = in.width
    /\ height = in.height
    /\ minPixels = in.minPixels

FreshHistory ==
    /\ seed = -1
    /\ cur = {}
    /\ found = <<>>
    /\ popCount = Zeros(Len(mask))
    /\ pushCount = Zeros(Len(mask))

\* mutants of Entry: only a mask that is too short is rejected; the array of
\* rectangles is kept from the previous call instead of created
EntryLengthAtLeast ==
    /\ pc = "entry"
    /\ IF Len(mask) < width * height
       THEN /\ result' = <<>>
            /\ pc' = "done"
            /\ UNCHANGED locals
       ELSE /\ visited' = Zeros(Len(mask))
            /\ rects' = <<>>
            /\ queue' = <<>>
            /\ idx' = 0
            /\ pc' = "scan"
            /\ UNCHANGED <<count, minX, minY, maxX, maxY, result>>
    /\ UNCHANGED <<args, history, memory, others>>

EntryRetainsRects ==
    /\ pc = "entry"
    /\ IF Len(mask) # width * height
       THEN /\ result' = <<>>
            /\ pc' = "done"
            /\ UNCHANGED locals
       ELSE /\ visited' = Zeros(Len(mask))
            /\ rects' = rects
            /\ queue' = <<>>
            /\ idx' = 0
            /\ pc' = "scan"
            /\ UNCHANGED <<count, minX, minY, maxX, maxY, result>>
    /\ UNCHANGED <<args, history, memory, others>>

\* line 9 and lines 11-13
Entry ==
    /\ pc = "entry"
    /\ IF Len(mask) # width * height
       THEN /\ result' = <<>>
            /\ pc' = "done"
            /\ UNCHANGED locals
       ELSE /\ visited' = Zeros(Len(mask))
            /\ rects' = <<>>
            /\ queue' = <<>>
            /\ idx' = 0
            /\ pc' = "scan"
            /\ UNCHANGED <<count, minX, minY, maxX, maxY, result>>
    /\ UNCHANGED <<args, history, memory, others>>

\* mutants of ScanStep: the seed is not marked visited; a visited pixel is
\* taken as a seed again
ScanStepSeedUnmarked ==
    /\ pc = "scan"
    /\ IF ~(idx < Len(mask))
       THEN /\ pc' = "sort"
            /\ UNCHANGED <<locals, history>>
       ELSE IF At(visited, idx) # 0 \/ At(mask, idx) = 0
       THEN /\ idx' = idx + 1
            /\ pc' = "scan"
            /\ UNCHANGED <<visited, rects, queue, count, minX, minY, maxX, maxY>>
            /\ UNCHANGED history
       ELSE /\ visited' = visited
            /\ queue' = <<idx>>
            /\ count' = 0
            /\ minX' = width
            /\ minY' = height
            /\ maxX' = 0
            /\ maxY' = 0
            /\ pc' = "drain"
            /\ seed' = idx
            /\ cur' = {}
            /\ pushCount' = SetAt(pushCount, idx, At(pushCount, idx) + 1)
            /\ UNCHANGED <<rects, idx, found, popCount>>
    /\ UNCHANGED <<args, result, memory, others>>

ScanStepRevisits ==
    /\ pc = "scan"
    /\ IF ~(idx < Len(mask))
       THEN /\ pc' = "sort"
            /\ UNCHANGED <<locals, history>>
       ELSE IF At(mask, idx) = 0
       THEN /\ idx' = idx + 1
            /\ pc' = "scan"
            /\ UNCHANGED <<visited, rects, queue, count, minX, minY, maxX, maxY>>
            /\ UNCHANGED history
       ELSE /\ visited' = SetAt(visited, idx, 1)
            /\ queue' = <<idx>>
            /\ count' = 0
            /\ minX' = width
            /\ minY' = height
            /\ maxX' = 0
            /\ maxY' = 0
            /\ pc' = "drain"
            /\ seed' = idx
            /\ cur' = {}
            /\ pushCount' = SetAt(pushCount, idx, At(pushCount, idx) + 1)
            /\ UNCHANGED <<rects, idx, found, popCount>>
    /\ UNCHANGED <<args, result, memory, others>>

\* mutant of ScanStep: an unvisited pixel is taken as a seed whatever its value
ScanStepIgnoresMask ==
    /\ pc = "scan"
    /\ IF ~(idx < Len(mask))
       THEN /\ pc' = "sort"
            /\ UNCHANGED <<locals, history>>
       ELSE IF At(visited, idx) # 0
       THEN /\ idx' = idx + 1
            /\ pc' = "scan"
            /\ UNCHANGED <<visited, rects, queue, count, minX, minY, maxX, maxY>>
            /\ UNCHANGED history
       ELSE /\ visited' = SetAt(visited, idx, 1)
            /\ queue' = <<idx>>
            /\ count' = 0
            /\ minX' = width
            /\ minY' = height
            /\ maxX' = 0
            /\ maxY' = 0
            /\ pc' = "drain"
            /\ seed' = idx
            /\ cur' = {}
            /\ pushCount' = SetAt(pushCount, idx, At(pushCount, idx) + 1)
            /\ UNCHANGED <<rects, idx, found, popCount>>
    /\ UNCHANGED <<args, result, memory, others>>

\* one iteration head of the for loop, lines 23-34
ScanStep ==
    /\ pc = "scan"
    /\ IF ~(idx < Len(mask))
       THEN /\ pc' = "sort"
            /\ UNCHANGED <<locals, history>>
       ELSE IF At(visited, idx) # 0 \/ At(mask, idx) = 0
       THEN /\ idx' = idx + 1
            /\ pc' = "scan"
            /\ UNCHANGED <<visited, rects, queue, count, minX, minY, maxX, maxY>>
            /\ UNCHANGED history
       ELSE /\ visited' = SetAt(visited, idx, 1)
            /\ queue' = <<idx>>
            /\ count' = 0
            /\ minX' = width
            /\ minY' = height
            /\ maxX' = 0
            /\ maxY' = 0
            /\ pc' = "drain"
            /\ seed' = idx
            /\ cur' = {}
            /\ pushCount' = SetAt(pushCount, idx, At(pushCount, idx) + 1)
            /\ UNCHANGED <<rects, idx, found, popCount>>
    /\ UNCHANGED <<args, result, memory, others>>

\* mutant of DrainStep: a counted pixel is cleared in the mask
DrainStepClearsMask ==
    /\ pc = "drain"
    /\ IF ~(Len(queue) > 0)
       THEN /\ pc' = "emit"
            /\ UNCHANGED <<locals, history, mask>>
       ELSE LET current == queue[Len(queue)]
                x == current % width
                y == current \div width
                s0 == [visited |-> visited,
                       queue |-> SubSeq(queue, 1, Len(queue) - 1),
                       pushCount |-> pushCount]
                s1 == PushIfValid(s0, x - 1, y)
                s2 == PushIfValid(s1, x + 1, y)
                s3 == PushIfValid(s2, x, y - 1)
                s4 == PushIfValid(s3, x, y + 1)
            IN  /\ count' = count + 1
                /\ minX' = IF x < minX THEN x ELSE minX
                /\ maxX' = IF x > maxX THEN x ELSE maxX
                /\ minY' = IF y < minY THEN y ELSE minY
                /\ maxY' = IF y > maxY THEN y ELSE maxY
                /\ visited' = s4.visited
                /\ queue' = s4.queue
                /\ pushCount' = s4.pushCount
                /\ popCount' = SetAt(popCount, current, At(popCount, current) + 1)
                /\ cur' = cur \cup {current}
                /\ mask' = SetAt(mask, current, 0)
                /\ pc' = "drain"
                /\ UNCHANGED <<rects, idx, seed, found>>
    /\ UNCHANGED <<width, height, minPixels, result, memory, others>>

\* mutant of DrainStep: a pixel is marked visited when it is popped, not when
\* it is pushed
DrainStepMarksOnPop ==
    /\ pc = "drain"
    /\ IF ~(Len(queue) > 0)
       THEN /\ pc' = "emit"
            /\ UNCHANGED <<locals, history>>
       ELSE LET current == queue[Len(queue)]
                x == current % width
                y == current \div width
                s0 == [visited |-> SetAt(visited, current, 1),
                       queue |-> SubSeq(queue, 1, Len(queue) - 1),
                       pushCount |-> pushCount]
                s1 == PushIfValidNoMark(s0, x - 1, y)
                s2 == PushIfValidNoMark(s1, x + 1, y)
                s3 == PushIfValidNoMark(s2, x, y - 1)
                s4 == PushIfValidNoMark(s3, x, y + 1)
            IN  /\ count' = count + 1
                /\ minX' = IF x < minX THEN x ELSE minX
                /\ maxX' = IF x > maxX THEN x ELSE maxX
                /\ minY' = IF y < minY THEN y ELSE minY
                /\ maxY' = IF y > maxY THEN y ELSE maxY
                /\ visited' = s4.visited
                /\ queue' = s4.queue
                /\ pushCount' = s4.pushCount
                /\ popCount' = SetAt(popCount, current, At(popCount, current) + 1)
                /\ cur' = cur \cup {current}
                /\ pc' = "drain"
                /\ UNCHANGED <<rects, idx, seed, found>>
    /\ UNCHANGED <<args, result, memory, others>>

\* one iteration of the while loop, lines 36-53
DrainStep ==
    /\ pc = "drain"
    /\ IF ~(Len(queue) > 0)
       THEN /\ pc' = "emit"
            /\ UNCHANGED <<locals, history>>
       ELSE LET current == queue[Len(queue)]
                x == current % width
                y == current \div width
                s0 == [visited |-> visited,
                       queue |-> SubSeq(queue, 1, Len(queue) - 1),
                       pushCount |-> pushCount]
                s1 == PushIfValid(s0, x - 1, y)
                s2 == PushIfValid(s1, x + 1, y)
                s3 == PushIfValid(s2, x, y - 1)
                s4 == PushIfValid(s3, x, y + 1)
            IN  /\ count' = count + 1
                /\ minX' = IF x < minX THEN x ELSE minX
                /\ maxX' = IF x > maxX THEN x ELSE maxX
                /\ minY' = IF y < minY THEN y ELSE minY
                /\ maxY' = IF y > maxY THEN y ELSE maxY
                /\ visited' = s4.visited
                /\ queue' = s4.queue
                /\ pushCount' = s4.pushCount
                /\ popCount' = SetAt(popCount, current, At(popCount, current) + 1)
                /\ cur' = cur \cup {current}
                /\ pc' = "drain"
                /\ UNCHANGED <<rects, idx, seed, found>>
    /\ UNCHANGED <<args, result, memory, others>>

\* mutant of EmitStep: a component of exactly minPixels pixels is dropped
EmitStepStrict ==
    /\ pc = "emit"
    /\ IF count > minPixels
       THEN /\ rects' = Append(rects, MakeRect(minX, minY, maxX, maxY))
            /\ found' = Append(found, [seed |-> seed, pixels |-> cur, count |-> count,
                                       rect |-> MakeRect(minX, minY, maxX, maxY)])
       ELSE /\ rects' = rects
            /\ found' = Append(found, [seed |-> seed, pixels |-> cur, count |-> count,
                                       rect |-> NoRect])
    /\ idx' = idx + 1
    /\ pc' = "scan"
    /\ UNCHANGED <<visited, queue, count, minX, minY, maxX, maxY>>
    /\ UNCHANGED <<args, result, seed, cur, popCount, pushCount, memory, others>>

\* lines 55-62 and the loop increment
EmitStep ==
    /\ pc = "emit"
    /\ IF count >= minPixels
       THEN /\ rects' = Append(rects, MakeRect(minX, minY, maxX, maxY))
            /\ found' = Append(found, [seed |-> seed, pixels |-> cur, count |-> count,
                                       rect |-> MakeRect(minX, minY, maxX, maxY)])
       ELSE /\ rects' = rects
            /\ found' = Append(found, [seed |-> seed, pixels |-> cur, count |-> count,
                                       rect |-> NoRect])
    /\ idx' = idx + 1
    /\ pc' = "scan"
    /\ UNCHANGED <<visited, queue, count, minX, minY, maxX, maxY>>
    /\ UNCHANGED <<args, result, seed, cur, popCount, pushCount, memory, others>>

\* line 65: sort in place, return the array
Return ==
    /\ pc = "sort"
    /\ rects' = SortRects(rects)
    /\ result' = rects'
    /\ pc' = "done"
    /\ UNCHANGED <<visited, queue, idx, count, minX, minY, maxX, maxY>>
    /\ UNCHANGED <<args, history, memory, others>>

\* A later call of the function.  The caller supplies new arguments; what
\* the previous call left in its local variables is dead and is only
\* replaced by the initialisers the function runs itself.
CallAgain ==
    /\ pc = "done"
    /\ \E in \in SmallInputs :
        /\ mask' = in.mask
        /\ width' = in.width
        /\ height' = in.height
        /\ minPixels' = in.minPixels
        /\ popCount' = Zeros(Len(in.mask))
        /\ pushCount' = Zeros(Len(in.mask))
    /\ seed' = -1
    /\ cur' = {}
    /\ found' = <<>>
    /\ result' = <<>>
    /\ pc' = "entry"
    /\ \/ /\ saved' = [mask |-> mask, width |-> width, height |-> height,
                       minPixels |-> minPixels, result |-> result]
          /\ between' = FALSE
       \/ /\ saved' = saved
          /\ between' = (saved # NoCall)
    /\ UNCHANGED <<locals, others>>

Step == Entry \/ ScanStep \/ DrainStep \/ EmitStep \/ Return

FreshLocals ==
    /\ visited = <<>>
    /\ rects = <<>>
    /\ queue = <<>>
    /\ idx = 0
    /\ count = 0
    /\ minX = 0
    /\ minY = 0
    /\ maxX = 0
    /\ maxY = 0

\* what the specifications of the extractor alone leave untouched
SlidesIdle ==
    /\ heap = <<>>
    /\ slides = <<>>
    /\ sourceIndex = 0
    /\ returned = NoReturn

BrushIdle ==
    /\ eraseBrushSize = InitialBrushSize
    /\ passed = NoPass

ShrinkIdle ==
    /\ spc = "off"
    /\ dataUrl = NoUrl
    /\ currentUrl = NoUrl
    /\ scale = 0
    /\ quality = 0
    /\ loopI = 0
    /\ attempts = 0
    /\ results = <<>>
    /\ shrunk = NoUrl

NoUpdate == [none |-> TRUE]

UiIdle ==
    /\ activeSlideIdx = 0
    /\ isEraseMode = FALSE
    /\ erasePaths = <<>>
    /\ eraseRedoPaths = <<>>
    /\ strokeCount = 0
    /\ calls = <<>>
    /\ lastUpdate = NoUpdate

RemoveIdle ==
    /\ rpc = "off"
    /\ base64Image = <<>>
    /\ sent = <<>>
    /\ responses = <<>>
    /\ thrown = <<>>

RestIdle ==
    /\ UiIdle
    /\ RemoveIdle

EraseIdle ==
    /\ epc = "off"
    /\ isProcessing = FALSE
    /\ appHistory = <<>>
    /\ historyIndex = -1
    /\ targetRects = <<>>
    /\ workingDataUrl = <<>>
    /\ rectIdx = 0
    /\ cropped = <<>>
    /\ requests = <<>>
    /\ replies = <<>>
    /\ alerts = <<>>

AppIdle ==
    /\ SlidesIdle
    /\ BrushIdle
    /\ ShrinkIdle
    /\ EraseIdle
    /\ RestIdle

OthersIdle ==
    /\ twin = <<>>
    /\ AppIdle

Init ==
    /\ pc = "entry"
    /\ \E in \in Inputs : StartWith(in)
    /\ FreshLocals
    /\ FreshHistory
    /\ result = <<>>
    /\ saved = NoCall
    /\ between = FALSE
    /\ OthersIdle

Next == Step

Spec == Init /\ [][Next]_vars

InitRepeat ==
    /\ pc = "entry"
    /\ \E in \in SmallInputs : StartWith(in)
    /\ FreshLocals
    /\ FreshHistory
    /\ result = <<>>
    /\ saved = NoCall
    /\ between = FALSE
    /\ OthersIdle

NextRepeat == Step \/ CallAgain

SpecRepeat == InitRepeat /\ [][NextRepeat]_vars

\* ------------------------------------------------------------- byte values
\* Two calls on masks that are non-zero at the same positions: the bytes of a
\* Uint8ClampedArray are 0..255, here 0, the least and the greatest non-zero.
ByteValues == {0, 1, 255}

SameSupport(m, t) ==
    /\ Len(m) = Len(t)
    /\ \A i \in 1..Len(m) : (m[i] = 0) <=> (t[i] = 0)

ByteInputs ==
    { in \in [mask : UNION {[1..n -> ByteValues] : n \in 1..BytesCells},
              width : 1..BytesCells, height : 1..BytesCells,
              minPixels : {1, 2}] :
        Len(in.mask) = in.width * in.height }

InitBytes ==
    /\ pc = "entry"
    /\ \E in \in ByteInputs :
        /\ StartWith(in)
        /\ twin \in {t \in [1..Len(in.mask) -> ByteValues] : SameSupport(in.mask, t)}
    /\ FreshLocals
    /\ FreshHistory
    /\ result = <<>>
    /\ saved = NoCall
    /\ between = FALSE
    /\ AppIdle

\* the second call: the same raster and threshold, the twin as the mask
CallTwin ==
    /\ pc = "done"
    /\ saved = NoCall
    /\ saved' = [mask |-> mask, width |-> width, height |-> height,
                 minPixels |-> minPixels, result |-> result]
    /\ mask' = twin
    /\ popCount' = Zeros(Len(twin))
    /\ pushCount' = Zeros(Len(twin))
    /\ seed' = -1
    /\ cur' = {}
    /\ found' = <<>>
    /\ result' = <<>>
    /\ pc' = "entry"
    /\ UNCHANGED <<width, height, minPixels, locals, between, twin, app>>

NextBytes == Step \/ CallTwin

SpecBytes == InitBytes /\ [][NextBytes]_vars

\* what the specifications of the other functions leave untouched
ExtractorIdle ==
    /\ pc = "off"
    /\ StartWith([mask |-> <<>>, width |-> 0, height |-> 0, minPixels |-> 0])
    /\ FreshLocals
    /\ FreshHistory
    /\ result = <<>>
    /\ saved = NoCall
    /\ between = FALSE
    /\ twin = <<>>

\* ------------------------------------------------------------- geometry
\* What the claims speak about, defined on the mask alone.
WellFormed == Len(mask) = width * height
Pixels == 0..(Len(mask) - 1)
Foreground == {p \in Pixels : At(mask, p) # 0}
Col(p) == p % width
Row(p) == p \div width

Adjacent4(p, q) ==
    \/ Row(p) = Row(q) /\ Col(p) - Col(q) \in {-1, 1}
    \/ Col(p) = Col(q) /\ Row(p) - Row(q) \in {-1, 1}

Diagonal(p, q) == Row(p) - Row(q) \in {-1, 1} /\ Col(p) - Col(q) \in {-1, 1}

\* the pixels one horizontal or vertical step away from p, inside the raster
Neighbours(p) ==
    {q \in {p - 1, p + 1, p - width, p + width} :
        q >= 0 /\ q < Len(mask) /\ Adjacent4(p, q)}

\* the foreground pixels linked to S by chains of horizontal and vertical
\* steps; F is the part of S whose neighbours are still to be looked at
RECURSIVE Grow(_, _)
Grow(S, F) ==
    LET N == {q \in UNION {Neighbours(p) : p \in F} : At(mask, q) # 0 /\ q \notin S}
    IN  IF N = {} THEN S ELSE Grow(S \cup N, N)

ComponentOf(p) == Grow({p}, {p})

Least(S) == CHOOSE v \in S : \A w \in S : v <= w
Greatest(S) == CHOOSE v \in S : \A w \in S : v >= w

\* the maximal 4-connected components of the pixels in rest
RECURSIVE ComponentsIn(_)
ComponentsIn(rest) ==
    IF rest = {} THEN {}
    ELSE LET c == ComponentOf(Least(rest))
         IN  {c} \cup ComponentsIn(rest \ c)

Components == ComponentsIn(Foreground)

BoundingBox(c) ==
    LET xs == {Col(p) : p \in c}
        ys == {Row(p) : p \in c}
    IN  [x |-> Least(xs), y |-> Least(ys),
         width |-> Greatest(xs) - Least(xs) + 1,
         height |-> Greatest(ys) - Least(ys) + 1]

Inside(p, r) ==
    /\ r.x <= Col(p) /\ Col(p) < r.x + r.width
    /\ r.y <= Row(p) /\ Row(p) < r.y + r.height

Overlap(a, b) ==
    /\ a.x < b.x + b.width /\ b.x < a.x + a.width
    /\ a.y < b.y + b.height /\ b.y < a.y + a.height

Range(s) == {s[i] : i \in 1..Len(s)}
Occurrences(s, v) == Cardinality({i \in 1..Len(s) : s[i] = v})
SameElements(s, t) ==
    /\ Len(s) = Len(t)
    /\ \A v \in Range(s) \cup Range(t) : Occurrences(s, v) = Occurrences(t, v)

RECURSIVE SumCounts(_)
SumCounts(s) == IF s = <<>> THEN 0 ELSE s[1].count + SumCounts(Tail(s))

Kept == {k \in 1..Len(found) : found[k].rect # NoRect}
Dropped == {k \in 1..Len(found) : found[k].rect = NoRect}
\* the rectangles in the order in which they were emitted
RECURSIVE RectsOf(_)
RectsOf(s) ==
    IF s = <<>> THEN <<>>
    ELSE IF s[1].rect = NoRect THEN RectsOf(Tail(s))
    ELSE <<s[1].rect>> \o RectsOf(Tail(s))

Returned == pc = "done" /\ WellFormed

\* ------------------------------------------------------------- claims

\* C1: for a well formed mask the call finds every maximal 4-connected
\* component exactly once and returns one rectangle for each component of at
\* least minPixels pixels and none for a smaller one.
ThresholdFilter ==
    Returned =>
        LET comps == Components IN
        /\ Len(found) = Cardinality(comps)
        /\ {found[k].pixels : k \in 1..Len(found)} = comps
        /\ \A k \in 1..Len(found) :
              (k \in Kept) <=> (Cardinality(found[k].pixels) >= minPixels)
        /\ SameElements(result, RectsOf(found))
        /\ Len(result) = Cardinality({c \in comps : Cardinality(c) >= minPixels})

\* a component of exactly minPixels pixels was kept, a single pixel and a
\* larger component were dropped
ThresholdFilterWitness ==
    /\ Returned
    /\ \E k \in Kept : found[k].count = minPixels
    /\ \E k \in Dropped : found[k].count = 1
    /\ \E k \in Dropped : found[k].count >= 2

\* C2: every returned rectangle is the tight bounding box of one maximal
\* 4-connected component, and each of its four edges holds a pixel of it.
TightBoundingBoxes ==
    Returned =>
        LET comps == Components IN
        \A i \in 1..Len(result) :
            \E c \in comps :
                /\ result[i] = BoundingBox(c)
                /\ \E p \in c : Col(p) = result[i].x
                /\ \E p \in c : Col(p) = result[i].x + result[i].width - 1
                /\ \E p \in c : Row(p) = result[i].y
                /\ \E p \in c : Row(p) = result[i].y + result[i].height - 1
                /\ \A p \in c : Inside(p, result[i])

\* a returned rectangle away from the origin whose component does not fill it
TightBoundingBoxesWitness ==
    /\ Returned
    /\ \E k \in Kept :
        /\ found[k].rect \in Range(result)
        /\ found[k].rect.x >= 1
        /\ found[k].rect.width >= 2
        /\ found[k].rect.height >= 2
        /\ found[k].count < found[k].rect.width * found[k].rect.height

\* C3, as stated: no two returned rectangles overlap.
NoTwoRectsOverlap ==
    Returned =>
        \A i, j \in 1..Len(result) :
            i # j => ~Overlap(result[i], result[j])

\* C3, amended: the components bounded by the returned rectangles share no
\* pixel and no two returned rectangles are equal (their areas may overlap).
RectsOfDisjointComponents ==
    Returned =>
        /\ SameElements(result, RectsOf(found))
        /\ \A k, l \in Kept :
              k # l => /\ found[k].pixels \cap found[l].pixels = {}
                       /\ found[k].rect # found[l].rect
        /\ \A i, j \in 1..Len(result) : i # j => result[i] # result[j]

\* two returned rectangles overlap, one component reaching into the box of
\* the other
RectsOfDisjointComponentsWitness ==
    /\ Returned
    /\ \E k, l \in Kept :
        /\ k # l
        /\ Overlap(found[k].rect, found[l].rect)
        /\ \E p \in found[l].pixels : Inside(p, found[k].rect)

\* C4: the returned sequence is sorted ascending by (y, x) of the top-left
\* corner.
SortedByTopLeft ==
    pc = "done" =>
        \A i \in 1..(Len(result) - 1) :
            \/ result[i].y < result[i + 1].y
            \/ result[i].y = result[i + 1].y /\ result[i].x <= result[i + 1].x

\* the sort changed the order in which the rectangles were emitted
SortedByTopLeftWitness ==
    /\ Returned
    /\ Len(result) >= 2
    /\ result # RectsOf(found)

\* C5: a mask whose length differs from width * height returns the empty
\* sequence straight from the entry, no pixel scanned, pushed or counted.
MalformedReturnsEmpty ==
    (~WellFormed /\ pc # "entry") =>
        /\ pc = "done"
        /\ result = <<>>
        /\ visited = <<>> /\ queue = <<>> /\ idx = 0
        /\ found = <<>>
        /\ \A p \in Pixels : At(popCount, p) = 0 /\ At(pushCount, p) = 0

\* a mask one element too long, with foreground pixels, has returned
MalformedReturnsEmptyWitness ==
    /\ pc = "done"
    /\ Len(mask) = width * height + 1
    /\ Cardinality(Foreground) >= 2
    /\ result = <<>>

\* C6: the flood fill partitions the foreground: no pixel is ever counted
\* twice and no zero pixel ever; at the end every non-zero pixel is counted in
\* exactly one component, the counts sum to the number of non-zero pixels and
\* the pixels of a kept component lie inside its returned rectangle.
FloodFillPartitions ==
    WellFormed =>
        /\ \A p \in Pixels :
              At(popCount, p) <= (IF At(mask, p) # 0 THEN 1 ELSE 0)
        /\ Returned =>
              /\ \A p \in Foreground :
                    /\ At(popCount, p) = 1
                    /\ Cardinality({k \in 1..Len(found) : p \in found[k].pixels}) = 1
              /\ \A k \in 1..Len(found) :
                    /\ found[k].count = Cardinality(found[k].pixels)
                    /\ found[k].pixels \subseteq Foreground
              /\ SumCounts(found) = Cardinality(Foreground)
              /\ \A k \in Kept :
                    /\ found[k].rect \in Range(result)
                    /\ \A p \in found[k].pixels : Inside(p, found[k].rect)

\* a mask with background and several components, kept and dropped ones
FloodFillPartitionsWitness ==
    /\ Returned
    /\ Cardinality(Foreground) >= 4
    /\ Cardinality(Pixels \ Foreground) >= 2
    /\ Cardinality(Kept) >= 2
    /\ Dropped # {}

\* C7: pixels are put in the same component only if a chain of horizontal and
\* vertical steps through foreground pixels links them; whatever is pushed
\* while a component is filled is linked to its seed.
FourConnectedOnly ==
    WellFormed =>
        /\ pc \in {"drain", "emit"} =>
              (cur \cup Range(queue)) \subseteq ComponentOf(seed)
        /\ \A k \in 1..Len(found) :
              found[k].pixels \subseteq ComponentOf(found[k].seed)

\* two foreground pixels touching diagonally, and a pixel at a row end with a
\* foreground pixel at the start of the next row, ended in different components
FourConnectedOnlyWitness ==
    /\ Returned
    /\ \E k, l \in 1..Len(found) :
        /\ k # l
        /\ \E p \in found[k].pixels : \E q \in found[l].pixels : Diagonal(p, q)
    /\ \E k, l \in 1..Len(found) :
        /\ k # l
        /\ \E p \in found[k].pixels : \E q \in found[l].pixels :
              Col(p) = width - 1 /\ q = p + 1

MaskNeverWritten == [][mask' = mask]_vars

\* both paths have returned with foreground pixels in the mask
MaskNeverWrittenWitness ==
    /\ Returned
    /\ Cardinality(Foreground) >= 3
    /\ Len(result) >= 1

\* C10: every returned rectangle has width and height of at least 1 and lies
\* inside the raster.
RectsInsideRaster ==
    pc = "done" =>
        \A i \in 1..Len(result) :
            /\ result[i].x \in Nat /\ result[i].y \in Nat
            /\ result[i].width \in Nat /\ result[i].height \in Nat
            /\ result[i].width >= 1 /\ result[i].height >= 1
            /\ result[i].x + result[i].width <= width
            /\ result[i].y + result[i].height <= height

\* with minPixels = 0, a rectangle at the top-left border and another one at
\* the bottom-right border
RectsInsideRasterWitness ==
    /\ Returned
    /\ minPixels = 0
    /\ \E i, j \in 1..Len(result) :
        /\ i # j
        /\ result[i].x = 0 /\ result[i].y = 0
        /\ result[j].x + result[j].width = width
        /\ result[j].y + result[j].height = height

\* C11: a well formed mask with every pixel non-zero and minPixels = 1
\* returns the single rectangle that covers the raster.
FullMaskOneRect ==
    (Returned /\ minPixels = 1 /\ \A p \in Pixels : At(mask, p) # 0)
        => result = <<[x |-> 0, y |-> 0, width |-> width, height |-> height]>>

\* a full raster of several rows and columns has returned
FullMaskOneRectWitness ==
    /\ Returned
    /\ minPixels = 1
    /\ width >= 3 /\ height >= 3
    /\ \A p \in Pixels : At(mask, p) # 0
    /\ Len(result) = 1

\* C12: a mask whose pixels are all zero returns the empty sequence, whatever
\* the width, the height and minPixels.
ZeroMaskNoRect ==
    (pc = "done" /\ \A p \in Pixels : At(mask, p) = 0) => result = <<>>

\* an all-zero raster of several rows and columns was scanned with minPixels = 0
ZeroMaskNoRectWitness ==
    /\ Returned
    /\ minPixels = 0
    /\ width >= 2 /\ height >= 2
    /\ idx = Len(mask)
    /\ \A p \in Pixels : At(mask, p) = 0
    /\ result = <<>>

\* ------------------------------------------------------------- termination
UnvisitedForeground ==
    Cardinality({p \in Pixels : At(mask, p) # 0 /\ At(visited, p) = 0})

\* a natural number that every step of the call makes smaller
Measure ==
    CASE pc = "entry" -> 5 * Len(mask) + 3
      [] pc = "scan"  -> 3 * (Len(mask) - idx) + 2 * UnvisitedForeground + Len(queue) + 2
      [] pc = "drain" -> 3 * (Len(mask) - idx) + 2 * UnvisitedForeground + Len(queue) + 1
      [] pc = "emit"  -> 3 * (Len(mask) - idx) + 2 * UnvisitedForeground + Len(queue)
      [] pc = "sort"  -> 1
      [] OTHER        -> 0

\* C14: on a well formed input the call ends: until it has returned a step
\* is always possible, and every step lowers a measure that stays >= 0.
TerminatesOnWellFormed ==
    /\ [](WellFormed => (pc = "done" \/ ENABLED Next))
    /\ [][WellFormed => (Measure' < Measure /\ Measure' >= 0)]_vars

\* the call has returned after filling a component of many pixels
TerminatesOnWellFormedWitness ==
    /\ Returned
    /\ minPixels = 0
    /\ \E k \in 1..Len(found) : found[k].count >= 6
    /\ Len(found) >= 2

\* C20: every pixel is pushed at most once and popped at most once, it is
\* marked visited exactly when it is pushed, only non-zero pixels are marked
\* or pushed, and the stack never holds more than width * height indices.
PushedAndPoppedOnce ==
    (WellFormed /\ pc # "entry") =>
        /\ \A p \in Pixels :
              /\ At(pushCount, p) <= 1
              /\ At(popCount, p) <= At(pushCount, p)
              /\ At(visited, p) = At(pushCount, p)
              /\ At(pushCount, p) = 1 => At(mask, p) # 0
        /\ Len(queue) <= width * height
        /\ Range(queue) = {p \in Pixels : At(pushCount, p) = 1 /\ At(popCount, p) = 0}
        /\ Cardinality(Range(queue)) = Len(queue)

\* three pixels wait on the stack while others are already counted
PushedAndPoppedOnceWitness ==
    /\ WellFormed
    /\ pc = "drain"
    /\ Len(queue) >= 3
    /\ Cardinality(cur) >= 2

\* C21 as stated: any two returned rectangles have different top-left
\* corners, so that the comparison alone fixes their order.
DistinctTopLeftCorners ==
    Returned =>
        \A i, j \in 1..Len(result) :
            i # j => (result[i].x # result[j].x \/ result[i].y # result[j].y)

SameCorner(a, b) == a.x = b.x /\ a.y = b.y

\* C21, amended: the returned rectangles ascend by (y, x) of their top-left
\* corners; rectangles of distinct components can have the same corner, and
\* those stay in the order in which their components were discovered.
CornerThenDiscoveryOrder ==
    Returned =>
        /\ \A i, j \in 1..Len(result) :
              i < j => Compare(result[i], result[j]) <= 0
        /\ \A i \in 1..Len(result) :
              SelectSeq(result, LAMBDA r : SameCorner(r, result[i]))
                = SelectSeq(RectsOf(found), LAMBDA r : SameCorner(r, result[i]))

\* two returned rectangles of different sizes have the same top-left corner
CornerThenDiscoveryOrderWitness ==
    /\ Returned
    /\ \E i, j \in 1..Len(result) :
        /\ i < j
        /\ SameCorner(result[i], result[j])
        /\ result[i] # result[j]

\* C13: two masks of the same raster that are non-zero at the same positions
\* return the same sequence, whatever their non-zero bytes are.
OnlyZeroOrNonZero ==
    (/\ pc = "done"
     /\ saved # NoCall
     /\ saved.width = width /\ saved.height = height
     /\ saved.minPixels = minPixels
     /\ SameSupport(saved.mask, mask))
        => result = saved.result

\* both calls returned a component of two pixels that differ in their bytes,
\* in the first mask and between the masks
OnlyZeroOrNonZeroWitness ==
    /\ pc = "done"
    /\ saved # NoCall
    /\ SameSupport(saved.mask, mask)
    /\ result # <<>>
    /\ \E k \in 1..Len(found) :
        /\ found[k].count >= 2
        /\ \E p, q \in found[k].pixels :
            /\ At(saved.mask, p) # At(saved.mask, q)
            /\ At(saved.mask, p) # At(mask, p)

\* ------------------------------------------------- duplicateSlideAtIndex
\* Objects live in heap, a sequence: the ref of an object is its position and a
\* new object is appended.  A slide holds the refs of its overlays, an overlay
\* the ref of its rect.  The overlays array is a value of the slide record.
Alloc(h, obj) == Append(h, obj)

\* the slides a caller can hold: a data URL and overlays, each an id and a rect
OverlayShapes == {[id |-> "o1", x |-> 0], [id |-> "o2", x |-> 1]}
SlideShapes ==
    [dataUrl : {"a", "b"},
     overlays : {<<>>} \cup {<<o>> : o \in OverlayShapes}
                \cup {<<o, q>> : o, q \in OverlayShapes}]

RECURSIVE MakeOverlays(_, _, _)
MakeOverlays(h, shapes, refs) ==
    IF shapes = <<>> THEN [heap |-> h, refs |-> refs]
    ELSE LET o == Head(shapes)
             h1 == Alloc(h, [kind |-> "rect", x |-> o.x, y |-> 0,
                             width |-> 10, height |-> 10])
             h2 == Alloc(h1, [kind |-> "overlay", id |-> o.id, rect |-> Len(h1)])
         IN MakeOverlays(h2, Tail(shapes), Append(refs, Len(h2)))

RECURSIVE MakeSlides(_, _, _)
MakeSlides(h, shapes, refs) ==
    IF shapes = <<>> THEN [heap |-> h, refs |-> refs]
    ELSE LET s == Head(shapes)
             made == MakeOverlays(h, s.overlays, <<>>)
             h1 == Alloc(made.heap, [kind |-> "slide", index |-> Len(refs),
                                     dataUrl |-> s.dataUrl, overlays |-> made.refs])
         IN MakeSlides(h1, Tail(shapes), Append(refs, Len(h1)))

\* {...overlay} alone: the rect of the copy is the rect of the original
cloneOverlayShallow(h, r) ==
    Alloc(h, h[r])

\* cloneOverlay: the new overlay is the last object of the heap returned
cloneOverlay(h, r) ==
    LET h1 == Alloc(h, h[h[r].rect])
    IN Alloc(h1, [h[r] EXCEPT !.rect = Len(h1)])

\* slide.overlays.map(cloneOverlay)
RECURSIVE MapCloneOverlay(_, _, _)
MapCloneOverlay(h, refs, out) ==
    IF refs = <<>> THEN [heap |-> h, refs |-> out]
    ELSE LET h1 == cloneOverlay(h, Head(refs))
         IN MapCloneOverlay(h1, Tail(refs), Append(out, Len(h1)))

\* cloneSlide: the new slide is the last object of the heap returned
cloneSlide(h, r) ==
    LET mapped == MapCloneOverlay(h, h[r].overlays, <<>>)
    IN Alloc(mapped.heap, [h[r] EXCEPT !.overlays = mapped.refs])

\* newSlides.splice(insertedIndex, 0, duplicated) on the copy [...slides]
Splice(arr, at, item) ==
    SubSeq(arr, 1, at) \o <<item>> \o SubSeq(arr, at + 1, Len(arr))

\* slides[sourceIndex] is undefined outside 0..length-1
HasSource == sourceIndex \in 0..(Len(slides) - 1)

duplicateSlideAtIndex ==
    /\ pc = "off"
    /\ returned = NoReturn
    /\ IF ~HasSource
       THEN /\ returned' = [slides |-> slides, insertedIndex |-> sourceIndex]
            /\ heap' = heap
       ELSE LET insertedIndex == sourceIndex + 1
                h1 == cloneSlide(heap, slides[sourceIndex + 1])
            IN /\ heap' = h1
               /\ returned' = [slides |-> Splice(slides, insertedIndex, Len(h1)),
                               insertedIndex |-> insertedIndex]
    /\ UNCHANGED <<slides, sourceIndex, extractor, brushVars, shrinkVars, eraseVars, beyond>>

InitSlides ==
    /\ ExtractorIdle
    /\ \E shapes \in UNION {[1..n -> SlideShapes] : n \in 0..MaxSlides} :
        LET made == MakeSlides(<<>>, shapes, <<>>)
        IN /\ heap = made.heap
           /\ slides = made.refs
           /\ sourceIndex \in -1..Len(shapes)
    /\ returned = NoReturn
    /\ BrushIdle
    /\ ShrinkIdle
    /\ EraseIdle
    /\ RestIdle

NextSlides == duplicateSlideAtIndex

SpecSlides == InitSlides /\ [][NextSlides]_vars

\* the objects a slide is made of: itself, its overlays and their rects
ObjectsOf(h, r) ==
    {r} \cup Range(h[r].overlays) \cup {h[o].rect : o \in Range(h[r].overlays)}

\* C19: for a valid sourceIndex i the result has insertedIndex i+1 and one
\* slide more; the slide at i+1 has the field values of the slide at i, but
\* is a new slide object with new overlay objects and new rect objects; the
\* original slides keep their order; the argument array and the objects it
\* reaches are never written.
DuplicateIsDeepCopy ==
    /\ [](( returned # NoReturn /\ HasSource) =>
            LET i == sourceIndex
                out == returned.slides
                src == heap[slides[i + 1]]
                dup == heap[out[i + 2]]
                old == UNION {ObjectsOf(heap, slides[k]) : k \in 1..Len(slides)}
            IN /\ returned.insertedIndex = i + 1
               /\ Len(out) = Len(slides) + 1
               /\ dup.kind = "slide"
               /\ dup.index = src.index
               /\ dup.dataUrl = src.dataUrl
               /\ Len(dup.overlays) = Len(src.overlays)
               /\ \A k \in 1..Len(src.overlays) :
                    LET a == heap[src.overlays[k]]
                        b == heap[dup.overlays[k]]
                    IN /\ b.kind = "overlay"
                       /\ b.id = a.id
                       /\ b.rect # a.rect
                       /\ heap[b.rect] = heap[a.rect]
               /\ ObjectsOf(heap, out[i + 2]) \cap old = {}
               /\ Cardinality(ObjectsOf(heap, out[i + 2]))
                    = 1 + 2 * Len(src.overlays)
               /\ \A k \in 1..(i + 1) : out[k] = slides[k]
               /\ \A k \in (i + 2)..Len(slides) : out[k + 1] = slides[k])
    /\ [][/\ slides' = slides
          /\ \A r \in 1..Len(heap) : heap'[r] = heap[r]]_vars

\* a slide with two overlays, neither first nor last of three, was duplicated
DuplicateIsDeepCopyWitness ==
    /\ returned # NoReturn
    /\ Len(slides) = 3
    /\ sourceIndex = 1
    /\ Len(heap[slides[2]].overlays) = 2
    /\ Len(returned.slides) = 4

\* ------------------------------------------------- minPixels from the brush
Max(a, b) == IF a >= b THEN a ELSE b

\* Math.round(n / k) for naturals n and k > 0: the nearest integer, halves up
Round(n, k) == (2 * n + k) \div (2 * k)

\* line 460 without Math.max
MinPixelsForNoFloor(d) ==
    Round(d * d, 3)

\* line 460: Math.max(120, Math.round((eraseBrushSize * eraseBrushSize) / 3))
MinPixelsFor(d) ==
    Max(MinPixelsFloor, Round(d * d, 3))

\* the range input: min 12, max 72, the default step of 1
SetEraseBrushSize ==
    /\ pc = "off"
    /\ \E d \in SliderMin..SliderMax :
        /\ d # eraseBrushSize
        /\ eraseBrushSize' = d
    /\ UNCHANGED <<passed, extractor, slideVars, shrinkVars, eraseVars, beyond>>

\* handleApplyEraseMode up to the call of the extractor, lines 460-461
PassMinPixels ==
    /\ pc = "off"
    /\ passed' = [d |-> eraseBrushSize, minPixels |-> MinPixelsFor(eraseBrushSize)]
    /\ passed' # passed
    /\ UNCHANGED <<eraseBrushSize, extractor, slideVars, shrinkVars, eraseVars, beyond>>

InitBrush ==
    /\ ExtractorIdle
    /\ SlidesIdle
    /\ BrushIdle
    /\ ShrinkIdle
    /\ EraseIdle
    /\ RestIdle

NextBrush == SetEraseBrushSize \/ PassMinPixels

SpecBrush == InitBrush /\ [][NextBrush]_vars

\* C18: the threshold passed for brush diameter d is max(120, r), r the
\* integer nearest to d*d/3; it is an integer, at least 120, and a threshold
\* passed for a diameter no smaller than that of the pass before is no smaller.
MinPixelsFromBrush ==
    /\ [](passed # NoPass =>
            /\ passed.d \in SliderMin..SliderMax
            /\ passed.minPixels \in Nat
            /\ passed.minPixels >= 120
            /\ \E r \in 0..(passed.d * passed.d) :
                /\ 2 * (3 * r - passed.d * passed.d) <= 3
                /\ 2 * (passed.d * passed.d - 3 * r) < 3
                /\ passed.minPixels = IF r > 120 THEN r ELSE 120)
    /\ [][(passed # NoPass /\ passed' # passed /\ passed.d <= passed'.d)
            => passed.minPixels <= passed'.minPixels]_vars

\* the largest brush was passed after the slider had been moved there:
\* 72*72/3 = 1728
MinPixelsFromBrushWitness ==
    /\ passed # NoPass
    /\ eraseBrushSize = 72
    /\ passed.d = 72 /\ passed.minPixels = 1728

\* ------------------------------------------------- shrinkForRequestIfNeeded
\* A data URL is the sequence of the lengths of dataUrl.split(","): <<n>> has
\* no comma, <<h, n>> is a header of h characters and n characters of base64.
Lengths == {0, 4000000, 4000001, 4000002, 8000000}

DataUrls ==
    {<<n>> : n \in Lengths} \cup {<<21, n>> : n \in Lengths}
        \cup {<<21, n, 4000002>> : n \in {0, 4000002}}

\* canvas.toDataURL("image/jpeg", quality): one header, one comma
JpegUrls == {<<22, n>> : n \in Lengths}

\* lines 10-13
estimateBase64Bytes(url) ==
    LET base64 == IF Len(url) > 1 THEN url[2] ELSE url[1]
    IN (base64 * 3) \div 4

\* lines 44-50
ShrinkEntry ==
    /\ spc = "entry"
    /\ IF estimateBase64Bytes(dataUrl) <= MAX_REQUEST_IMAGE_BYTES
       THEN /\ shrunk' = dataUrl
            /\ spc' = "returned"
            /\ UNCHANGED <<scale, quality, currentUrl>>
       ELSE /\ scale' = 90
            /\ quality' = 90
            /\ currentUrl' = dataUrl
            /\ spc' = "loop"
            /\ UNCHANGED shrunk
    /\ loopI' = 0
    /\ UNCHANGED <<dataUrl, attempts, results, extractor, slideVars, brushVars, eraseVars, beyond>>

\* the loop runs once more
ShrinkLoopTestInclusive ==
    /\ spc = "loop"
    /\ IF loopI <= ShrinkAttempts
       THEN /\ spc' = "await"
            /\ attempts' = attempts + 1
            /\ UNCHANGED shrunk
       ELSE /\ shrunk' = currentUrl
            /\ spc' = "returned"
            /\ UNCHANGED attempts
    /\ UNCHANGED <<dataUrl, currentUrl, scale, quality, loopI, results,
                   extractor, slideVars, brushVars, eraseVars, beyond>>

\* line 52, the call at line 53 and the return at line 61
ShrinkLoopTest ==
    /\ spc = "loop"
    /\ IF loopI < ShrinkAttempts
       THEN /\ spc' = "await"
            /\ attempts' = attempts + 1
            /\ UNCHANGED shrunk
       ELSE /\ shrunk' = currentUrl
            /\ spc' = "returned"
            /\ UNCHANGED attempts
    /\ UNCHANGED <<dataUrl, currentUrl, scale, quality, loopI, results,
                   extractor, slideVars, brushVars, eraseVars, beyond>>

\* compressDataUrl rejects (lines 19 and 37): the await at line 53 throws
ShrinkCompressFailed ==
    /\ spc = "await"
    /\ spc' = "rejected"
    /\ UNCHANGED <<dataUrl, currentUrl, scale, quality, loopI, attempts, results,
                   shrunk, extractor, slideVars, brushVars, eraseVars, beyond>>

\* compressDataUrl resolves: lines 53-58.  The size of what it returns is
\* not assumed to be smaller than what it was given.
ShrinkCompressed ==
    /\ spc = "await"
    /\ \E url \in JpegUrls :
        /\ currentUrl' = url
        /\ results' = Append(results, url)
        /\ IF estimateBase64Bytes(url) <= MAX_REQUEST_IMAGE_BYTES
           THEN /\ shrunk' = url
                /\ spc' = "returned"
                /\ UNCHANGED <<scale, quality, loopI>>
           ELSE /\ scale' = Max(70, scale - 7)
                /\ quality' = Max(68, quality - 5)
                /\ loopI' = loopI + 1
                /\ spc' = "loop"
                /\ UNCHANGED shrunk
    /\ UNCHANGED <<dataUrl, attempts, extractor, slideVars, brushVars, eraseVars, beyond>>

InitShrink ==
    /\ ExtractorIdle
    /\ SlidesIdle
    /\ BrushIdle
    /\ spc = "entry"
    /\ dataUrl \in DataUrls
    /\ currentUrl = NoUrl
    /\ scale = 0
    /\ quality = 0
    /\ loopI = 0
    /\ attempts = 0
    /\ results = <<>>
    /\ shrunk = NoUrl
    /\ EraseIdle
    /\ RestIdle

NextShrink == ShrinkEntry \/ ShrinkLoopTest \/ ShrinkCompressFailed \/ ShrinkCompressed

\* every awaited compression settles, and the function continues when it does
SpecShrink == InitShrink /\ [][NextShrink]_vars /\ WF_vars(NextShrink)

Fits(url) == estimateBase64Bytes(url) <= 3000000

\* C17: no compression when the argument is within the limit, and then the
\* argument is returned; otherwise at most 6 compressions, none after a
\* result within the limit, which is what is returned; the call ends.
ShrinkAttemptsBounded ==
    /\ [](spc # "off" =>
            /\ attempts <= 6
            /\ Len(results) <= attempts
            /\ Fits(dataUrl) => /\ attempts = 0
                                /\ spc = "returned" => shrunk = dataUrl
            /\ \A k \in 1..(Len(results) - 1) : ~Fits(results[k])
            /\ (results # <<>> /\ Fits(results[Len(results)]))
                    => /\ spc = "returned"
                       /\ attempts = Len(results)
                       /\ shrunk = results[Len(results)]
            /\ (spc = "returned" /\ ~Fits(dataUrl))
                    => /\ attempts >= 1
                       /\ shrunk = results[Len(results)]
                       /\ ~Fits(shrunk) => attempts = 6)
    /\ (spc = "entry") ~> (spc \in {"returned", "rejected"})

\* six compressions, each still over the limit, and the last one returned
ShrinkAttemptsBoundedWitness ==
    /\ spc = "returned"
    /\ attempts = 6
    /\ Len(results) = 6
    /\ ~Fits(shrunk)
    /\ scale = 70 /\ quality = 68

\* ------------------------------------------------- handleApplyEraseMode
\* An image is the sequence of the contents of its pixels in row-major order:
\* 0 is what the slide showed when the handler started, k > 0 is what the
\* answer to the k-th removal request painted.  The slide is a 3 by 3 raster
\* and the threshold is drawn from 1..MaxMinPixels instead of line 460.
EraseInputs ==
    { in \in [mask : MasksOfLength(9), width : {3}, height : {3},
              minPixels : 1..MaxMinPixels] :
        Cardinality({n \in 1..9 : in.mask[n] # 0}) <= ErasePixels }

Original == [n \in 1..9 |-> 0]

\* cropImageDataUrl, lines 116-134: the rect.width by rect.height pixels at rect
Crop(img, rect) ==
    [n \in 1..(rect.width * rect.height) |->
        img[(rect.y + (n - 1) \div rect.width) * width
            + rect.x + ((n - 1) % rect.width) + 1]]

\* what the service answers to request k: new content for every pixel
Cleaned(k, rect) == [n \in 1..(rect.width * rect.height) |-> k]

\* pasteImageDataUrl, lines 136-148: the base with the patch drawn at rect
Paste(base, patch, rect) ==
    [n \in 1..Len(base) |->
        IF Inside(n - 1, rect)
        THEN patch[(Row(n - 1) - rect.y) * rect.width + Col(n - 1) - rect.x + 1]
        ELSE base[n]]

\* currentSlides, line 57
currentSlides == IF historyIndex >= 0 THEN appHistory[historyIndex + 1] ELSE <<>>

\* lines 450-461 up to the call of the extractor
ApplyStart ==
    /\ epc = "idle"
    /\ IF currentSlides = <<>>
       THEN /\ epc' = "ended"
            /\ UNCHANGED <<pc, isProcessing, alerts>>
       ELSE IF erasePaths = <<>>
       THEN /\ alerts' = Append(alerts, "nopath")
            /\ epc' = "ended"
            /\ UNCHANGED <<pc, isProcessing>>
       ELSE /\ isProcessing' = TRUE
            /\ pc' = "entry"
            /\ epc' = "extract"
            /\ UNCHANGED alerts
    /\ UNCHANGED <<appHistory, historyIndex, targetRects, workingDataUrl, rectIdx,
                   cropped, requests, replies>>
    /\ UNCHANGED <<args, locals, result, history, memory, twin,
                   slideVars, brushVars, shrinkVars, beyond>>

\* mutant of ApplyRects: an empty result leaves erase mode like a commit
ApplyRectsResets ==
    /\ epc = "extract"
    /\ pc = "done"
    /\ targetRects' = result
    /\ IF Len(result) = 0
       THEN /\ alerts' = Append(alerts, "empty")
            /\ isProcessing' = FALSE
            /\ epc' = "ended"
            /\ isEraseMode' = FALSE
            /\ erasePaths' = <<>>
            /\ UNCHANGED workingDataUrl
       ELSE /\ workingDataUrl' = currentSlides[1]
            /\ epc' = "loop"
            /\ UNCHANGED <<alerts, isProcessing, isEraseMode, erasePaths>>
    /\ rectIdx' = 0
    /\ UNCHANGED <<appHistory, historyIndex, cropped, requests, replies>>
    /\ UNCHANGED <<activeSlideIdx, eraseRedoPaths, strokeCount, calls, lastUpdate,
                   removeVars>>
    /\ UNCHANGED <<extractor, slideVars, brushVars, shrinkVars>>

\* lines 461-468 after the extractor has returned, and the finally of line 492
ApplyRects ==
    /\ epc = "extract"
    /\ pc = "done"
    /\ targetRects' = result
    /\ IF Len(result) = 0
       THEN /\ alerts' = Append(alerts, "empty")
            /\ isProcessing' = FALSE
            /\ epc' = "ended"
            /\ UNCHANGED workingDataUrl
       ELSE /\ workingDataUrl' = currentSlides[1]
            /\ epc' = "loop"
            /\ UNCHANGED <<alerts, isProcessing>>
    /\ rectIdx' = 0
    /\ UNCHANGED <<appHistory, historyIndex, cropped, requests, replies>>
    /\ UNCHANGED <<extractor, slideVars, brushVars, shrinkVars, beyond>>

\* mutant of ApplySend: the crop is taken from the slide as it was
ApplySendFromOriginal ==
    /\ epc = "loop"
    /\ rectIdx < Len(targetRects)
    /\ LET rect == targetRects[rectIdx + 1]
       IN /\ cropped' = Crop(currentSlides[1], rect)
          /\ requests' = Append(requests, [rect |-> rect, crop |-> cropped'])
    /\ epc' = "await"
    /\ UNCHANGED <<isProcessing, appHistory, historyIndex, targetRects,
                   workingDataUrl, rectIdx, replies, alerts>>
    /\ UNCHANGED <<extractor, slideVars, brushVars, shrinkVars, beyond>>

\* lines 469-471: the next rectangle, its crop, and the request sent
ApplySend ==
    /\ epc = "loop"
    /\ rectIdx < Len(targetRects)
    /\ LET rect == targetRects[rectIdx + 1]
       IN /\ cropped' = Crop(workingDataUrl, rect)
          /\ requests' = Append(requests, [rect |-> rect, crop |-> cropped'])
    /\ epc' = "await"
    /\ UNCHANGED <<isProcessing, appHistory, historyIndex, targetRects,
                   workingDataUrl, rectIdx, replies, alerts>>
    /\ UNCHANGED <<extractor, slideVars, brushVars, shrinkVars, beyond>>

\* lines 471-475: the answer of removeTextFromImage.  A rejection is rethrown
\* by removeTextFromImage and lands in the catch of line 488, then the
\* finally of line 492.
ApplyReceive ==
    /\ epc = "await"
    /\ \E reply \in {"patch", "null", "throw"} :
        /\ replies' = Append(replies, reply)
        /\ IF reply = "throw"
           THEN /\ alerts' = Append(alerts, "failed")
                /\ isProcessing' = FALSE
                /\ epc' = "ended"
                /\ UNCHANGED <<workingDataUrl, rectIdx>>
           ELSE /\ workingDataUrl' =
                      IF reply = "patch"
                      THEN LET rect == targetRects[rectIdx + 1]
                           IN Paste(workingDataUrl, Cleaned(Len(requests), rect), rect)
                      ELSE workingDataUrl
                /\ rectIdx' = rectIdx + 1
                /\ epc' = "loop"
                /\ UNCHANGED <<alerts, isProcessing>>
    /\ UNCHANGED <<appHistory, historyIndex, targetRects, cropped, requests>>
    /\ UNCHANGED <<extractor, slideVars, brushVars, shrinkVars, beyond>>

\* lines 477-487 and 492: the slide with the working image, and after it the
\* copy of the slide as it was; updateHistory, lines 62-67; resetEraseMode,
\* lines 69-74
ApplyCommit ==
    /\ epc = "loop"
    /\ rectIdx = Len(targetRects)
    /\ LET source == currentSlides[1]
           withOriginalCopy == <<workingDataUrl, source>>
           newHistory == Append(SubSeq(appHistory, 1, historyIndex + 1),
                                withOriginalCopy)
       IN /\ appHistory' = newHistory
          /\ historyIndex' = Len(newHistory) - 1
          /\ lastUpdate' = [history |-> appHistory, historyIndex |-> historyIndex,
                            newSlides |-> withOriginalCopy]
    /\ isEraseMode' = FALSE
    /\ erasePaths' = <<>>
    /\ eraseRedoPaths' = <<>>
    /\ isProcessing' = FALSE
    /\ epc' = "ended"
    /\ UNCHANGED <<targetRects, workingDataUrl, rectIdx, cropped, requests,
                   replies, alerts>>
    /\ UNCHANGED <<activeSlideIdx, strokeCount, calls, removeVars>>
    /\ UNCHANGED <<extractor, slideVars, brushVars, shrinkVars>>

InitErase ==
    /\ pc = "off"
    /\ erasePaths \in {<<>>, <<1>>}
    /\ \E in \in EraseInputs :
        /\ StartWith(in)
        /\ erasePaths = <<>> => in.mask = Zeros(9)
    /\ FreshLocals
    /\ FreshHistory
    /\ result = <<>>
    /\ saved = NoCall
    /\ between = FALSE
    /\ twin = <<>>
    /\ SlidesIdle
    /\ BrushIdle
    /\ ShrinkIdle
    /\ activeSlideIdx = 0
    /\ isEraseMode = TRUE
    /\ eraseRedoPaths = <<>>
    /\ strokeCount = Len(erasePaths)
    /\ calls = <<>>
    /\ lastUpdate = NoUpdate
    /\ RemoveIdle
    /\ epc = "idle"
    /\ isProcessing = FALSE
    /\ appHistory = << <<Original>> >>
    /\ historyIndex = 0
    /\ targetRects = <<>>
    /\ workingDataUrl = <<>>
    /\ rectIdx = 0
    /\ cropped = <<>>
    /\ requests = <<>>
    /\ replies = <<>>
    /\ alerts = <<>>

NextErase ==
    \/ ApplyStart
    \/ Step
    \/ ApplyRects
    \/ ApplySend
    \/ ApplyReceive
    \/ ApplyCommit

SpecErase == InitErase /\ [][NextErase]_vars

\* the image after the first j answers: each pixel shows the latest patch
\* pasted over it, or what the slide showed
ExpectedImage(j) ==
    [n \in 1..9 |->
        LET over == {k \in 1..j : replies[k] = "patch" /\ Inside(n - 1, targetRects[k])}
        IN IF over = {} THEN 0 ELSE Greatest(over)]

Rejected == replies # <<>> /\ replies[Len(replies)] = "throw"

\* C15 as stated: after a rejected request the remaining rectangles are still
\* requested and the patches of the others are committed.
FailureCaughtPerRectangle ==
    (epc = "ended" /\ "throw" \in Range(replies)) =>
        /\ Len(requests) = Len(targetRects)
        /\ historyIndex = 1
        /\ appHistory[2][1] = ExpectedImage(Len(replies))

\* what the handler does instead: a rejected request ends the call: it is the
\* last request, history is left as it was, the failure alert is shown and
\* isProcessing is false.  Only an empty answer is skipped alone: when no
\* request is rejected every rectangle is requested and the patches are
\* committed.
FailureAbandonsCall ==
    /\ \A k \in 1..(Len(replies) - 1) : replies[k] # "throw"
    /\ Rejected =>
        /\ epc = "ended"
        /\ Len(requests) = Len(replies)
        /\ appHistory = << <<Original>> >>
        /\ historyIndex = 0
        /\ alerts = <<"failed">>
        /\ ~isProcessing
    /\ (epc = "ended" /\ targetRects # <<>> /\ ~Rejected) =>
        /\ Len(requests) = Len(targetRects)
        /\ Len(replies) = Len(targetRects)
        /\ historyIndex = 1
        /\ appHistory = << <<Original>>, <<ExpectedImage(Len(replies)), Original>> >>
        /\ alerts = <<>>
        /\ ~isProcessing

\* the second of three requests was rejected after a patch had been pasted:
\* the patch is in the working image and nowhere in history
RejectedAfterPatch ==
    /\ epc = "ended"
    /\ Len(targetRects) >= 3
    /\ replies = <<"patch", "throw">>
    /\ workingDataUrl # Original
    /\ appHistory = << <<Original>> >>

Statuses == {200, 413, 500}
BodyErrors == {<<>>, <<"Payload Too Large">>, <<"upstream answered", "413">>}
Responses == [status : Statuses, error : BodyErrors]
NetworkError == [status |-> 0, error |-> <<"Failed to fetch">>]

\* response.ok
Ok(r) == r.status \in 200..299

\* line 81: body?.error || `Gemini request failed (${response.status})`
MessageOf(r) ==
    IF r.error # <<>> THEN r.error ELSE <<"Gemini request failed", ToString(r.status)>>

\* mutant of Includes413: only the generated message counts
Includes413Generated(msg) ==
    msg = <<"Gemini request failed", "413">>

\* line 114: String(error?.message || "").includes("413")
Includes413(msg) ==
    "413" \in Range(msg)

\* lines 111-112: shrinkForRequestIfNeeded, then the first request is sent;
\* a failed compression lands in the catch of line 113 and is rethrown
RemoveAllPrepare ==
    /\ rpc = "prepare"
    /\ \/ \E prepared \in IF Fits(base64Image) THEN {base64Image} ELSE JpegUrls :
            /\ sent' = Append(sent, prepared)
            /\ rpc' = "first"
            /\ UNCHANGED thrown
       \/ /\ ~Fits(base64Image)
          /\ thrown' = <<"Failed to load image for compression.">>
          /\ rpc' = "rejected"
          /\ UNCHANGED sent
    /\ UNCHANGED <<base64Image, responses>>
    /\ UNCHANGED <<extractor, slideVars, brushVars, shrinkVars, eraseVars, uiVars>>

\* lines 112-119: the answer to the first request; callGeminiApi, lines 64-85
RemoveAllFirstAnswer ==
    /\ rpc = "first"
    /\ \E r \in Responses \cup {NetworkError} :
        /\ responses' = Append(responses, r)
        /\ IF Ok(r)
           THEN /\ rpc' = "returned"
                /\ UNCHANGED thrown
           ELSE IF Includes413(MessageOf(r))
           THEN /\ rpc' = "emergency"
                /\ UNCHANGED thrown
           ELSE /\ thrown' = MessageOf(r)
                /\ rpc' = "rejected"
    /\ UNCHANGED <<base64Image, sent>>
    /\ UNCHANGED <<extractor, slideVars, brushVars, shrinkVars, eraseVars, uiVars>>

\* lines 115-116: compressDataUrl(base64Image, 0.65, 0.7), then the second
\* request is sent; a failed compression leaves the catch block
RemoveAllEmergency ==
    /\ rpc = "emergency"
    /\ \/ \E emergencyImage \in JpegUrls :
            /\ sent' = Append(sent, emergencyImage)
            /\ rpc' = "second"
            /\ UNCHANGED thrown
       \/ /\ thrown' = <<"Failed to load image for compression.">>
          /\ rpc' = "rejected"
          /\ UNCHANGED sent
    /\ UNCHANGED <<base64Image, responses>>
    /\ UNCHANGED <<extractor, slideVars, brushVars, shrinkVars, eraseVars, uiVars>>

\* line 116: the answer to the second request
RemoveAllSecondAnswer ==
    /\ rpc = "second"
    /\ \E r \in Responses \cup {NetworkError} :
        /\ responses' = Append(responses, r)
        /\ IF Ok(r)
           THEN /\ rpc' = "returned"
                /\ UNCHANGED thrown
           ELSE /\ thrown' = MessageOf(r)
                /\ rpc' = "rejected"
    /\ UNCHANGED <<base64Image, sent>>
    /\ UNCHANGED <<extractor, slideVars, brushVars, shrinkVars, eraseVars, uiVars>>

InitRemoveAll ==
    /\ ExtractorIdle
    /\ SlidesIdle
    /\ BrushIdle
    /\ ShrinkIdle
    /\ EraseIdle
    /\ UiIdle
    /\ rpc = "prepare"
    /\ base64Image \in DataUrls
    /\ sent = <<>>
    /\ responses = <<>>
    /\ thrown = <<>>

NextRemoveAll ==
    \/ RemoveAllPrepare
    \/ RemoveAllFirstAnswer
    \/ RemoveAllEmergency
    \/ RemoveAllSecondAnswer

SpecRemoveAll == InitRemoveAll /\ [][NextRemoveAll]_vars

Ended == rpc \in {"returned", "rejected"}

\* C23 as stated, on the calls whose compressions succeed: at most two
\* requests; the first request answered with status 413 is followed by
\* exactly one more request; any other failure of the first request is
\* rethrown with no further request; a failed second request is rethrown.
RetriesExactlyOn413 ==
    /\ Len(sent) <= 2
    /\ (Ended /\ responses # <<>> /\ thrown # <<"Failed to load image for compression.">>) =>
        /\ responses[1].status = 413 => Len(sent) = 2
        /\ (~Ok(responses[1]) /\ responses[1].status # 413)
                => (Len(sent) = 1 /\ rpc = "rejected")
        /\ (Len(responses) = 2 /\ ~Ok(responses[2])) => rpc = "rejected"

\* what the code does: the retry follows the text of the error message
RetriesOnMessageWith413 ==
    /\ Len(sent) <= 2
    /\ Len(responses) <= Len(sent)
    /\ (Ended /\ responses # <<>> /\ thrown # <<"Failed to load image for compression.">>) =>
        /\ Len(sent) = 2 <=> (~Ok(responses[1]) /\ Includes413(MessageOf(responses[1])))
        /\ (Len(responses) = 2 /\ ~Ok(responses[2]))
                => (rpc = "rejected" /\ thrown = MessageOf(responses[2]))
        /\ (Len(sent) = 1 /\ ~Ok(responses[1]))
                => (rpc = "rejected" /\ thrown = MessageOf(responses[1]))

\* a first answer of status 413 whose body names the error was not retried
Status413NotRetried ==
    /\ rpc = "rejected"
    /\ Len(sent) = 1
    /\ responses[1].status = 413
    /\ thrown = <<"Payload Too Large">>

\* ------------------------------------------------------- the editor (App)
\* A slide is a number: a page of the loaded file, or CleanSlide for an image
\* the backend returned.  What the handlers below leave alone:
applyLocals == <<epc, targetRects, workingDataUrl, rectIdx, cropped, requests,
                 replies, alerts>>
elsewhere == <<extractor, slideVars, brushVars, shrinkVars, applyLocals, removeVars>>

CleanSlide == 0

\* line 57, for the history and index a handler holds
SlidesAt(h, hi) == IF hi >= 0 THEN h[hi + 1] ELSE <<>>

\* what a handler created in the current render reads
Closure(kind) ==
    [kind |-> kind, history |-> appHistory, historyIndex |-> historyIndex,
     activeSlideIdx |-> activeSlideIdx]

Without(s, k) == SubSeq(s, 1, k - 1) \o SubSeq(s, k + 1, Len(s))

\* lines 62-67 without the slice: the entries after historyIndex stay
updateHistoryKeepingRedo(h, hi, newSlides) ==
    /\ appHistory' = Append(h, newSlides)
    /\ historyIndex' = Len(appHistory') - 1
    /\ lastUpdate' = [history |-> h, historyIndex |-> hi, newSlides |-> newSlides]

\* lines 62-67: updateHistory, reading the history and historyIndex of the
\* render that created it
updateHistory(h, hi, newSlides) ==
    /\ appHistory' = Append(SubSeq(h, 1, hi + 1), newSlides)
    /\ historyIndex' = Len(appHistory') - 1
    /\ lastUpdate' = [history |-> h, historyIndex |-> hi, newSlides |-> newSlides]

\* lines 69-74
resetEraseMode ==
    /\ isEraseMode' = FALSE
    /\ erasePaths' = <<>>
    /\ eraseRedoPaths' = <<>>

\* utils/slideOperations.ts, duplicateSlideAtIndex, on slide values
DuplicatedSlides(list, index) ==
    IF index \in 0..(Len(list) - 1)
    THEN Splice(list, index + 1, list[index + 1])
    ELSE list

\* lines 478-483 and 507-511: the active slide replaced by the clean image,
\* its original inserted after it
WithOriginalCopy(list, index) ==
    [DuplicatedSlides(list, index) EXCEPT ![index + 1] = CleanSlide]

\* lines 150-187 up to the first await; a file that is neither a PDF nor an
\* image runs through without awaiting
handleFileUploadBegin ==
    /\ \E type \in {"pdf", "image", "other"} :
        IF type = "other"
        THEN /\ appHistory' = << <<>> >>
             /\ historyIndex' = 0
             /\ activeSlideIdx' = 0
             /\ resetEraseMode
             /\ isProcessing' = FALSE
             /\ UNCHANGED calls
        ELSE /\ Len(calls) < MaxCalls
             /\ isProcessing' = TRUE
             /\ calls' = Append(calls, Closure(type))
             /\ UNCHANGED <<appHistory, historyIndex, activeSlideIdx, isEraseMode,
                            erasePaths, eraseRedoPaths>>
    /\ UNCHANGED <<strokeCount, lastUpdate>>
    /\ UNCHANGED elsewhere

\* lines 155-186 after the awaits: the slides of the file, or the catch
handleFileUploadResume ==
    /\ \E k \in 1..Len(calls) :
        /\ calls[k].kind \in {"pdf", "image"}
        /\ calls' = Without(calls, k)
        /\ \/ \E pages \in 1..(IF calls[k].kind = "pdf" THEN MaxDeck ELSE 1) :
                /\ appHistory' = << [n \in 1..pages |-> n] >>
                /\ historyIndex' = 0
                /\ activeSlideIdx' = 0
                /\ resetEraseMode
           \/ UNCHANGED <<appHistory, historyIndex, activeSlideIdx, isEraseMode,
                          erasePaths, eraseRedoPaths>>
    /\ isProcessing' = FALSE
    /\ UNCHANGED <<strokeCount, lastUpdate>>
    /\ UNCHANGED elsewhere

\* lines 281-286 with the test historyIndex >= 0
handleUndoFromFirst ==
    /\ historyIndex >= 0
    /\ historyIndex' = historyIndex - 1
    /\ UNCHANGED <<appHistory, isProcessing, uiVars>>
    /\ UNCHANGED elsewhere

\* lines 281-286
handleUndo ==
    /\ historyIndex > 0
    /\ historyIndex' = historyIndex - 1
    /\ UNCHANGED <<appHistory, isProcessing, uiVars>>
    /\ UNCHANGED elsewhere

\* lines 288-293
handleRedo ==
    /\ historyIndex < Len(appHistory) - 1
    /\ historyIndex' = historyIndex + 1
    /\ UNCHANGED <<appHistory, isProcessing, uiVars>>
    /\ UNCHANGED elsewhere

\* lines 642-647: a slide of the panel is selected
onSlideSelect ==
    /\ \E index \in 0..(Len(currentSlides) - 1) :
        activeSlideIdx' = index
    /\ resetEraseMode
    /\ UNCHANGED <<appHistory, historyIndex, isProcessing, strokeCount, calls,
                   lastUpdate>>
    /\ UNCHANGED elsewhere

\* lines 400-412
handleSlideDelete ==
    /\ historyIndex + 2 <= MaxEntries
    /\ \E index \in 0..(Len(currentSlides) - 1) :
        /\ Len(currentSlides) > 1
        /\ LET newSlides == Without(currentSlides, index + 1)
           IN  /\ updateHistory(appHistory, historyIndex, newSlides)
               /\ activeSlideIdx' =
                    IF activeSlideIdx >= Len(newSlides) THEN Len(newSlides) - 1
                    ELSE IF activeSlideIdx > index THEN activeSlideIdx - 1
                    ELSE activeSlideIdx
    /\ resetEraseMode
    /\ UNCHANGED <<isProcessing, strokeCount, calls>>
    /\ UNCHANGED elsewhere

\* lines 414-421
handleSlideDuplicate ==
    /\ historyIndex + 2 <= MaxEntries
    /\ Len(currentSlides) < MaxDeck
    /\ \E index \in 0..(Len(currentSlides) - 1) :
        /\ updateHistory(appHistory, historyIndex, DuplicatedSlides(currentSlides, index))
        /\ activeSlideIdx' = index + 1
    /\ resetEraseMode
    /\ UNCHANGED <<isProcessing, strokeCount, calls>>
    /\ UNCHANGED elsewhere

\* lines 423-437
handleSlideReorder ==
    /\ historyIndex + 2 <= MaxEntries
    /\ \E fromIndex, toIndex \in 0..(Len(currentSlides) - 1) :
        /\ fromIndex # toIndex
        /\ LET moved == currentSlides[fromIndex + 1]
               newSlides == Splice(Without(currentSlides, fromIndex + 1), toIndex, moved)
           IN  updateHistory(appHistory, historyIndex, newSlides)
        /\ activeSlideIdx' =
            IF activeSlideIdx = fromIndex THEN toIndex
            ELSE IF activeSlideIdx > fromIndex /\ activeSlideIdx <= toIndex
            THEN activeSlideIdx - 1
            ELSE IF activeSlideIdx < fromIndex /\ activeSlideIdx >= toIndex
            THEN activeSlideIdx + 1
            ELSE activeSlideIdx
    /\ resetEraseMode
    /\ UNCHANGED <<isProcessing, strokeCount, calls>>
    /\ UNCHANGED elsewhere

\* lines 439-447; the button is disabled without slides and while processing
handleStartEraseMode ==
    /\ currentSlides # <<>>
    /\ ~isProcessing
    /\ isEraseMode' = TRUE
    /\ erasePaths' = <<>>
    /\ eraseRedoPaths' = <<>>
    /\ UNCHANGED <<appHistory, historyIndex, isProcessing, activeSlideIdx,
                   strokeCount, calls, lastUpdate>>
    /\ UNCHANGED elsewhere

\* lines 257-261: a stroke drawn on the canvas, which is shown while nothing
\* is processing; a path without points is dropped
handleErasePathCommit ==
    /\ isEraseMode
    /\ ~isProcessing
    /\ currentSlides # <<>>
    /\ strokeCount < MaxStrokes
    /\ \E points \in 0..1 :
        IF points = 0
        THEN UNCHANGED <<erasePaths, eraseRedoPaths, strokeCount>>
        ELSE /\ erasePaths' = Append(erasePaths, strokeCount + 1)
             /\ eraseRedoPaths' = <<>>
             /\ strokeCount' = strokeCount + 1
    /\ UNCHANGED <<appHistory, historyIndex, isProcessing, activeSlideIdx,
                   isEraseMode, calls, lastUpdate>>
    /\ UNCHANGED elsewhere

\* lines 263-270 without the inner setEraseRedoPaths
handleEraseUndoDropping ==
    /\ isEraseMode
    /\ IF erasePaths = <<>>
       THEN UNCHANGED <<erasePaths, eraseRedoPaths>>
       ELSE /\ erasePaths' = SubSeq(erasePaths, 1, Len(erasePaths) - 1)
            /\ UNCHANGED eraseRedoPaths
    /\ UNCHANGED <<appHistory, historyIndex, isProcessing, activeSlideIdx,
                   isEraseMode, strokeCount, calls, lastUpdate>>
    /\ UNCHANGED elsewhere

\* lines 263-270; Ctrl+Z in erase mode, or the toolbar button
handleEraseUndo ==
    /\ isEraseMode
    /\ IF erasePaths = <<>>
       THEN UNCHANGED <<erasePaths, eraseRedoPaths>>
       ELSE /\ erasePaths' = SubSeq(erasePaths, 1, Len(erasePaths) - 1)
            /\ eraseRedoPaths' = Append(eraseRedoPaths, erasePaths[Len(erasePaths)])
    /\ UNCHANGED <<appHistory, historyIndex, isProcessing, activeSlideIdx,
                   isEraseMode, strokeCount, calls, lastUpdate>>
    /\ UNCHANGED elsewhere

\* lines 272-279; Ctrl+Shift+Z in erase mode, or the toolbar button
handleEraseRedo ==
    /\ isEraseMode
    /\ IF eraseRedoPaths = <<>>
       THEN UNCHANGED <<erasePaths, eraseRedoPaths>>
       ELSE /\ eraseRedoPaths' = SubSeq(eraseRedoPaths, 1, Len(eraseRedoPaths) - 1)
            /\ erasePaths' = Append(erasePaths, eraseRedoPaths[Len(eraseRedoPaths)])
    /\ UNCHANGED <<appHistory, historyIndex, isProcessing, activeSlideIdx,
                   isEraseMode, strokeCount, calls, lastUpdate>>
    /\ UNCHANGED elsewhere

\* line 726: the clear button of the erase toolbar
onEraseClear ==
    /\ isEraseMode
    /\ currentSlides # <<>>
    /\ erasePaths' = <<>>
    /\ eraseRedoPaths' = <<>>
    /\ UNCHANGED <<appHistory, historyIndex, isProcessing, activeSlideIdx,
                   isEraseMode, strokeCount, calls, lastUpdate>>
    /\ UNCHANGED elsewhere

\* lines 449-467: the apply button of the erase toolbar, which is shown in
\* erase mode and is never disabled.  Without rectangles, or when the mask
\* cannot be rendered, the handler ends without awaiting.
handleApplyEraseModeBegin ==
    /\ isEraseMode
    /\ currentSlides # <<>>
    /\ erasePaths # <<>>
    /\ \/ /\ isProcessing' = FALSE
          /\ UNCHANGED calls
       \/ /\ activeSlideIdx < Len(currentSlides)
          /\ Len(calls) < MaxCalls
          /\ historyIndex + 2 <= MaxEntries
          /\ Len(currentSlides) < MaxDeck
          /\ isProcessing' = TRUE
          /\ calls' = Append(calls, Closure("erase"))
    /\ UNCHANGED <<appHistory, historyIndex, activeSlideIdx, isEraseMode,
                   erasePaths, eraseRedoPaths, strokeCount, lastUpdate>>
    /\ UNCHANGED elsewhere

\* lines 469-494 after the awaits: the commit, or the catch
handleApplyEraseModeResume ==
    /\ \E k \in 1..Len(calls) :
        /\ calls[k].kind = "erase"
        /\ calls' = Without(calls, k)
        /\ \/ /\ updateHistory(calls[k].history, calls[k].historyIndex,
                    WithOriginalCopy(SlidesAt(calls[k].history, calls[k].historyIndex),
                                     calls[k].activeSlideIdx))
              /\ resetEraseMode
           \/ UNCHANGED <<appHistory, historyIndex, lastUpdate, isEraseMode,
                          erasePaths, eraseRedoPaths>>
    /\ isProcessing' = FALSE
    /\ UNCHANGED <<activeSlideIdx, strokeCount>>
    /\ UNCHANGED elsewhere

\* lines 497-504: the button is disabled without slides and while processing;
\* without a current slide the handler ends in its catch without awaiting
handleRemoveTextAllBegin ==
    /\ currentSlides # <<>>
    /\ ~isProcessing
    /\ IF activeSlideIdx < Len(currentSlides)
       THEN /\ Len(calls) < MaxCalls
            /\ historyIndex + 2 <= MaxEntries
            /\ Len(currentSlides) < MaxDeck
            /\ isProcessing' = TRUE
            /\ calls' = Append(calls, Closure("removeAll"))
       ELSE /\ isProcessing' = FALSE
            /\ UNCHANGED calls
    /\ UNCHANGED <<appHistory, historyIndex, activeSlideIdx, isEraseMode,
                   erasePaths, eraseRedoPaths, strokeCount, lastUpdate>>
    /\ UNCHANGED elsewhere

\* lines 504-525 after the await: the commit, the empty answer or the catch
handleRemoveTextAllResume ==
    /\ \E k \in 1..Len(calls) :
        /\ calls[k].kind = "removeAll"
        /\ calls' = Without(calls, k)
        /\ \/ /\ updateHistory(calls[k].history, calls[k].historyIndex,
                    WithOriginalCopy(SlidesAt(calls[k].history, calls[k].historyIndex),
                                     calls[k].activeSlideIdx))
              /\ resetEraseMode
           \/ UNCHANGED <<appHistory, historyIndex, lastUpdate, isEraseMode,
                          erasePaths, eraseRedoPaths>>
    /\ isProcessing' = FALSE
    /\ UNCHANGED <<activeSlideIdx, strokeCount>>
    /\ UNCHANGED elsewhere

InitApp ==
    /\ ExtractorIdle
    /\ AppIdle

Edit ==
    \/ handleSlideDelete
    \/ handleSlideDuplicate
    \/ handleSlideReorder

\* the editor from its construction: uploads, slide edits, undo and redo
NextUpload ==
    \/ handleFileUploadBegin
    \/ handleFileUploadResume
    \/ handleUndo
    \/ handleRedo
    \/ onSlideSelect
    \/ handleSlideDelete
    \/ handleSlideDuplicate
    \/ handleSlideReorder

SpecUpload == InitApp /\ [][NextUpload]_vars

\* the editor after a file was loaded (lines 176-180), and every handler
\* but the upload
InitLoaded ==
    /\ ExtractorIdle
    /\ SlidesIdle
    /\ BrushIdle
    /\ ShrinkIdle
    /\ RestIdle
    /\ epc = "off"
    /\ isProcessing = FALSE
    /\ \E pages \in 1..MaxDeck : appHistory = << [n \in 1..pages |-> n] >>
    /\ historyIndex = 0
    /\ targetRects = <<>>
    /\ workingDataUrl = <<>>
    /\ rectIdx = 0
    /\ cropped = <<>>
    /\ requests = <<>>
    /\ replies = <<>>
    /\ alerts = <<>>

NextLoaded ==
    \/ handleUndo
    \/ handleRedo
    \/ onSlideSelect
    \/ handleSlideDelete
    \/ handleSlideDuplicate
    \/ handleSlideReorder
    \/ handleStartEraseMode
    \/ handleErasePathCommit
    \/ handleApplyEraseModeBegin
    \/ handleApplyEraseModeResume
    \/ handleRemoveTextAllBegin
    \/ handleRemoveTextAllResume

SpecLoaded == InitLoaded /\ [][NextLoaded]_vars

NextStrokes ==
    \/ handleFileUploadBegin
    \/ handleFileUploadResume
    \/ handleStartEraseMode
    \/ handleErasePathCommit
    \/ handleEraseUndo
    \/ handleEraseRedo
    \/ onEraseClear

SpecStrokes == InitApp /\ [][NextStrokes]_vars

\* C24: once a file is loaded historyIndex is an index of history; undo is
\* refused at index 0 and redo at the last index; undo and redo leave the
\* history list alone; after an undo, a redo is possible and shows the slide
\* list that was current before the undo.
HistoryIndexInRange ==
    /\ [](appHistory # <<>> => historyIndex \in 0..(Len(appHistory) - 1))
    /\ [](historyIndex <= 0 => ~ENABLED handleUndo)
    /\ [](historyIndex >= Len(appHistory) - 1 => ~ENABLED handleRedo)
    /\ [][(handleUndo \/ handleRedo) => appHistory' = appHistory]_vars
    /\ [][handleUndo =>
            /\ historyIndex' = historyIndex - 1
            /\ historyIndex' < Len(appHistory') - 1
            /\ SlidesAt(appHistory', historyIndex' + 1) = currentSlides]_vars
    /\ [][handleRedo => historyIndex' = historyIndex + 1]_vars

\* an undo has acted: the index is 0 below a second entry
HistoryIndexInRangeWitness ==
    /\ Len(appHistory) = 2
    /\ historyIndex = 0
    /\ appHistory[1] # appHistory[2]

Updates ==
    \/ Edit
    \/ handleApplyEraseModeResume /\ lastUpdate' # lastUpdate
    \/ handleRemoveTextAllResume /\ lastUpdate' # lastUpdate

\* C25: updateHistory(s), with the history and historyIndex it reads, keeps
\* the entries 0..historyIndex, drops the later ones, appends s as the last
\* entry and moves historyIndex to it, so that redo is refused; the slide
\* edits read the history and historyIndex of the state they act on.
UpdateHistoryFrame ==
    /\ [][Updates =>
            LET u == lastUpdate'
            IN  /\ Len(appHistory') = u.historyIndex + 2
                /\ \A n \in 1..(u.historyIndex + 1) : appHistory'[n] = u.history[n]
                /\ appHistory'[Len(appHistory')] = u.newSlides
                /\ historyIndex' = Len(appHistory') - 1]_vars
    /\ [][Edit => /\ lastUpdate'.history = appHistory
                  /\ lastUpdate'.historyIndex = historyIndex]_vars
    /\ [](lastUpdate # NoUpdate /\ historyIndex = Len(appHistory) - 1
            => ~ENABLED handleRedo)

\* the latest updateHistory dropped an entry that could have been redone
UpdateHistoryFrameWitness ==
    /\ lastUpdate # NoUpdate
    /\ Len(lastUpdate.history) > lastUpdate.historyIndex + 1
    /\ appHistory = Append(SubSeq(lastUpdate.history, 1, lastUpdate.historyIndex + 1),
                           lastUpdate.newSlides)
    /\ historyIndex = Len(appHistory) - 1

\* C26 as stated: with a non-empty current slide list, activeSlideIdx is an
\* index of it.
ActiveSlideIdxValid ==
    currentSlides # <<>> => activeSlideIdx \in 0..(Len(currentSlides) - 1)

\* after a duplicate and an undo the active index is past the only slide
ActiveSlideIdxPastEnd ==
    /\ calls = <<>>
    /\ Len(appHistory) = 2
    /\ historyIndex = 0
    /\ Len(currentSlides) = 1
    /\ activeSlideIdx = 1

Front(s) == SubSeq(s, 1, Len(s) - 1)
Reverse(s) == [n \in 1..Len(s) |-> s[Len(s) + 1 - n]]

\* C27: a committed stroke is appended to erasePaths and empties
\* eraseRedoPaths; erase-undo moves the last stroke of erasePaths to the end
\* of eraseRedoPaths and erase-redo moves it back; a redo after an undo
\* restores both stacks; each leaves empty stacks alone; together the two
\* stacks always hold the same strokes in the same order, each once.
TwoStackEditor ==
    /\ [](\A m, n \in 1..Len(erasePaths \o eraseRedoPaths) :
            m # n => (erasePaths \o eraseRedoPaths)[m] # (erasePaths \o eraseRedoPaths)[n])
    /\ [][(handleErasePathCommit /\ strokeCount' # strokeCount) =>
            /\ erasePaths' = Append(erasePaths, strokeCount')
            /\ eraseRedoPaths' = <<>>]_vars
    /\ [][handleEraseUndo =>
            IF erasePaths = <<>>
            THEN UNCHANGED <<erasePaths, eraseRedoPaths>>
            ELSE /\ erasePaths' = Front(erasePaths)
                 /\ eraseRedoPaths' = Append(eraseRedoPaths, erasePaths[Len(erasePaths)])
                 /\ Append(erasePaths', eraseRedoPaths'[Len(eraseRedoPaths')]) = erasePaths
                 /\ Front(eraseRedoPaths') = eraseRedoPaths]_vars
    /\ [][handleEraseRedo =>
            IF eraseRedoPaths = <<>>
            THEN UNCHANGED <<erasePaths, eraseRedoPaths>>
            ELSE /\ eraseRedoPaths' = Front(eraseRedoPaths)
                 /\ erasePaths' = Append(erasePaths, eraseRedoPaths[Len(eraseRedoPaths)])]_vars
    /\ [][(handleEraseUndo \/ handleEraseRedo) =>
            erasePaths' \o Reverse(eraseRedoPaths') = erasePaths \o Reverse(eraseRedoPaths)]_vars

\* the second of two strokes was undone
TwoStackEditorWitness ==
    /\ isEraseMode
    /\ erasePaths = <<1>>
    /\ eraseRedoPaths = <<2>>

Removals == {c \in Range(calls) : c.kind \in {"erase", "removeAll"}}

\* C28 as stated (its safety part): isProcessing is true while a removal
\* call awaits the backend.
ProcessingWhileAwaiting ==
    Removals # {} => isProcessing

\* one of two overlapping erase calls has ended, the other still awaits
AwaitingNotProcessing ==
    /\ Len(calls) = 1
    /\ calls[1].kind = "erase"
    /\ ~isProcessing
    /\ isEraseMode

\* C29 as stated: a removal that commits reads, at commit time, the history,
\* the index and the active slide of the state it commits to.
CommitsOnCurrentHistory ==
    [][((handleApplyEraseModeResume \/ handleRemoveTextAllResume)
            /\ (appHistory' # appHistory \/ lastUpdate' # lastUpdate)) =>
            /\ lastUpdate'.history = appHistory
            /\ lastUpdate'.historyIndex = historyIndex
            /\ lastUpdate'.newSlides = WithOriginalCopy(currentSlides, activeSlideIdx)]_vars

\* a commit replaced the entry a slide edit had appended during the await
EditOverwritten ==
    /\ calls = <<>>
    /\ lastUpdate # NoUpdate
    /\ lastUpdate.history = << <<1>> >>
    /\ appHistory = << <<1>>, <<CleanSlide, 1>> >>
    /\ activeSlideIdx = 1

\* C30 as stated: handleFileUpload leaves history and historyIndex alone up
\* to its first await, and afterwards either leaves them alone or makes the
\* history one entry with a non-empty slide list, index 0, active slide 0.
UploadOnlyConverted ==
    /\ [][handleFileUploadBegin => UNCHANGED <<appHistory, historyIndex>>]_vars
    /\ [][handleFileUploadResume =>
            \/ UNCHANGED <<appHistory, historyIndex, activeSlideIdx>>
            \/ /\ Len(appHistory') = 1
               /\ appHistory'[1] # <<>>
               /\ historyIndex' = 0
               /\ activeSlideIdx' = 0]_vars

\* the editor was emptied by a file that is neither a PDF nor an image
EmptiedByUnsupportedFile ==
    /\ appHistory = << <<>> >>
    /\ historyIndex = 0
    /\ lastUpdate # NoUpdate

====
